---- MODULE Spec2Model ----
(***************************************************************************)
(* Model of the dialogue-video pipeline of HAOreelsGEN:                    *)
(*   ImageManager.generate_images_for_dialogue  (image_manager.py)         *)
(*   ElevenLabsVoiceManager.generate_audio      (voice_manager.py)         *)
(*   VideoManager.create_audio_with_timestamps  (video_manager.py)         *)
(*   VideoManager.process_video                 (video_manager.py)         *)
(* driven by one DialogueGenerator in the order of test_generator.py and   *)
(* of main(): images, then the build, then the render; an exception that   *)
(* leaves a manager ends the run.                                          *)
(*                                                                         *)
(* Python list positions are 0-based; a TLA+ sequence position p stands    *)
(* for the Python index p - 1.  Durations are whole time units.            *)
(***************************************************************************)
EXTENDS Integers, Sequences, FiniteSets, TLC

\* ---------------------------------------------------------------- bounds
MaxLines == 3      \* longest dialogue explored
MaxDur   == 2      \* longest synthesized clip, in time units
MaxClock == 2      \* number of distinct clock seconds in which names are minted

\* ------------------------------------------------------ program constants
voice_max_retries    == 3   \* generate_audio(max_retries = 3)
image_max_retries    == 3   \* max_retries = 3 in generate_image

\* a retry bound one too large
download_max_retries_off_by_one == 3 + 1
download_max_retries == 3   \* download_image_with_retry(max_retries = 3)

Texts  == {"a", "b"}           \* line texts
Causes == {"conn", "http"}     \* underlying causes of a failed request

VARIABLES
    pc,               \* position of the (single) thread of control
    now,              \* wall-clock second (strftime "%Y%m%d_%H%M%S")
    slept,            \* a time.sleep(2) happened since the clock was last read
    dirs,             \* directories that exist in the working directory
    lines,            \* the dialogue, split into non-blank stripped lines
    dialogue_images,  \* generator.dialogue_images
    \* ImageManager.generate_images_for_dialogue / generate_image
    images,           \* local dict `images` being filled
    img_i,            \* loop index i (0-based)
    img_attempt,      \* `attempt` of generate_image
    dl_attempt,       \* `attempt` of download_image_with_retry
    genRequests,      \* client.images.generate calls of this generate_image call
    dlRequests,       \* requests.get calls of this generate_image call
    img_result,       \* value generate_image returned
    \* ElevenLabsVoiceManager.generate_audio
    attempt,          \* `attempt` of generate_audio
    vRequests,        \* requests.post calls of this generate_audio call
    vSleeps,          \* time.sleep(2) calls of this generate_audio call
    vVoice,           \* voice_id of the requests of this call
    vStatus,          \* "none" | "running" | "returned" | "raised"
    vError,           \* the exception generate_audio raised
    vLast,            \* cause of the most recent failed attempt
    audio_file,       \* file name generate_audio returned
    audioFs,          \* temp/audio/<character>_<timestamp>.mp3 -> duration (0: no file)
    \* VideoManager
    vm_set,           \* the attributes below have been assigned
    vm_lines,         \* self.dialogue_lines
    audio_files,      \* self.audio_files
    timestamps,       \* self.timestamps
    current_time,     \* local current_time of the build
    i,                \* loop index of the build (0-based)
    buildNo,          \* number of create_audio_with_timestamps calls so far
    buildStatus,      \* "none" | "running" | "ok" | "failed"
    finalAudio,       \* temp/audio/final_audio.wav: [dur, by], dur = 0: no file
    \* VideoManager.process_video
    renderStatus,     \* "none" | "ok" | "error"
    renderCause,      \* stage at which process_video raised
    bg_duration,      \* duration of the background clip
    subtitle_clips,   \* clips of create_subtitle_clips
    image_clips,      \* clips of create_image_clips
    video_audio,      \* duration of the audio attached to the composite
    video_audio_by,   \* the build that wrote the audio file the render loaded
    video_duration,   \* video.duration of the composite
    open_clips,       \* clips process_video made and had not closed when it ended
    outputs,          \* output video files written
    \* VideoManager.create_video
    cv_args,          \* audio_files (durations), character_images, duration,
                      \* and the background asset: whether it opens, its length
    cv_status,        \* "none" | "ok" | "error"
    cv_audio,         \* the clips of final_audio, each with its start and end
    cv_audio_duration,\* final_audio.duration
    cv_background,    \* duration of the background after loop / subclip
    cv_characters,    \* the character clips, each with its position
    cv_open,          \* clips create_video made and had not closed when it ended
    \* DialogueGenerator.generate_dialogue
    num_lines,        \* the argument num_lines
    frames,           \* generate_dialogue frames on the interpreter's stack
    requests,         \* chat.completions.create calls made
    response,         \* content of the last response, as its lines
    dialogue_result,  \* "none" | "dialogue" | "error_msg": what the call returned
    last_generated_dialogue   \* generator.last_generated_dialogue, <<>> for None

genVars    == <<lines, dialogue_images>>
clockVars  == <<now, slept>>
imgVars    == <<images, img_i, img_attempt, dl_attempt, genRequests, dlRequests,
                img_result>>
voiceVars  == <<attempt, vRequests, vSleeps, vVoice, vStatus, vError, vLast,
                audio_file>>
vmVars     == <<vm_set, vm_lines, audio_files, timestamps, current_time, i,
                buildNo, buildStatus>>
renderVars == <<renderStatus, renderCause, bg_duration, subtitle_clips,
                image_clips, video_audio, video_audio_by, video_duration,
                open_clips, outputs>>
cvVars     == <<cv_args, cv_status, cv_audio, cv_audio_duration, cv_background,
                cv_characters, cv_open>>
dgVars     == <<num_lines, frames, requests, response, dialogue_result,
                last_generated_dialogue>>
vars == <<pc, genVars, clockVars, dirs, imgVars, voiceVars, audioFs,
          vmVars, finalAudio, renderVars, cvVars, dgVars>>

\* ------------------------------------------------------------- helpers
RECURSIVE SumSeq(_)
SumSeq(s) == IF s = <<>> THEN 0 ELSE Head(s) + SumSeq(Tail(s))

LineSeqs == UNION {[1..n -> Texts] : n \in 1..MaxLines}

\* an image reference: a path images/dialogue_line_<line>_<timestamp>.png
\* (the line number keeps the names of one dialogue apart, so the timestamp
\* is left out), the error message generate_image returns, the empty
\* string, or None
ImagePath(line_number) == [kind |-> "path", line |-> line_number]
ErrorString == [kind |-> "error", line |-> -1]
EmptyString == [kind |-> "absent", line |-> -1]
NoneValue   == [kind |-> "none", line |-> -1]

\* dict.get(key, default)
DictGet(d, key, default) == IF key \in DOMAIN d THEN d[key] ELSE default

\* d[key] = value
DictPut(d, key, value) ==
    [k \in DOMAIN d \cup {key} |-> IF k = key THEN value ELSE d[k]]

EmptyDict == [k \in {} |-> EmptyString]

\* datetime.now() to the second: the same second as the last reading, or a
\* later one; after a sleep of 2 seconds always a later one
ClockReadings == {t \in now .. now + 1 : (slept => t > now) /\ t <= MaxClock}

\* temp/audio/<character>_<timestamp>.mp3
AudioName(character, timestamp) == <<character, timestamp>>
AudioNames == {"rick", "morty"} \X (0 .. MaxClock)
NoFile == <<"", -1>>

\* the exceptions generate_audio raises: after the last attempt, built from
\* str(e) of that attempt (line 103), and the one after the loop (line 108)
RetriesError(cause) == [kind |-> "retries", cause |-> cause]
GenericError == [kind |-> "generic", cause |-> "none"]
NoError == [kind |-> "none", cause |-> "none"]

\* directories made by the constructors of DialogueGenerator
\* (os.makedirs creates the parents as well)
InitDirs == {"temp", "temp/audio", "metadata", "metadata/audio",
             "images", "metadata/images", "output",
             "dialogues", "metadata/dialogues"}

\* --------------------------------------------------------------- Init
\* no create_video call has been made
NoArgs == [audio |-> <<>>, images |-> <<>>, duration |-> 0,
           bg_opens |-> FALSE, bg_len |-> 0]

\* generate_dialogue has not been called
InitGenerateDialogue ==
    /\ requests = 0
    /\ response = <<>>
    /\ dialogue_result = "none"
    /\ last_generated_dialogue = <<>>

InitCreateVideo ==
    /\ cv_status = "none"
    /\ cv_audio = <<>>
    /\ cv_audio_duration = 0
    /\ cv_background = 0
    /\ cv_characters = <<>>
    /\ cv_open = {}

\* the working directory and the managers after DialogueGenerator()
InitManagers ==
    /\ now = 0
    /\ slept = FALSE
    /\ \E pre \in SUBSET {"metadata/video"} : dirs = InitDirs \cup pre
    /\ dialogue_images = EmptyDict
    /\ images = EmptyDict
    /\ img_i = 0
    /\ img_attempt = 0
    /\ dl_attempt = 0
    /\ genRequests = 0
    /\ dlRequests = 0
    /\ img_result = NoneValue
    /\ attempt = 0
    /\ vRequests = 0
    /\ vSleeps = 0
    /\ vVoice = "none"
    /\ vStatus = "none"
    /\ vError = NoError
    /\ vLast = "none"
    /\ audio_file = NoFile
    /\ audioFs = [f \in AudioNames |-> 0]
    /\ vm_set = FALSE
    /\ vm_lines = <<>>
    /\ audio_files = <<>>
    /\ timestamps = <<>>
    /\ current_time = 0
    /\ i = 0
    /\ buildNo = 0
    /\ buildStatus = "none"
    /\ finalAudio = [dur |-> 0, by |-> 0]
    /\ renderStatus = "none"
    /\ renderCause = "none"
    /\ bg_duration = 0
    /\ subtitle_clips = <<>>
    /\ image_clips = <<>>
    /\ video_audio = 0
    /\ video_audio_by = 0
    /\ video_duration = 0
    /\ open_clips = {}
    /\ outputs = {}

Init ==
    /\ pc = "start"
    /\ lines \in LineSeqs
    /\ InitManagers
    /\ cv_args = NoArgs
    /\ InitCreateVideo
    /\ num_lines = 0
    /\ frames = 0
    /\ InitGenerateDialogue

\* ------------------------------------------------------- ImageManager
\* generate_images_for_dialogue is called; its loop enters generate_image
\* for line 0
generate_images_for_dialogue ==
    /\ pc = "start"
    /\ images' = EmptyDict
    /\ img_i' = 0
    /\ img_attempt' = 0
    /\ dl_attempt' = 0
    /\ genRequests' = 0
    /\ dlRequests' = 0
    /\ img_result' = NoneValue
    /\ pc' = "img_gen"
    /\ UNCHANGED <<lines, dialogue_images, clockVars, dirs, voiceVars,
                   audioFs, vmVars, finalAudio, renderVars, cvVars, dgVars>>

\* the handlers without the outer `except Exception`: the terminal
\* exception leaves generate_image and generate_images_for_dialogue
ImageAttemptFailedRaises(sleptBefore) ==
    IF img_attempt = image_max_retries - 1
    THEN /\ pc' = "aborted"
         /\ slept' = sleptBefore
         /\ UNCHANGED <<img_attempt, img_result>>
    ELSE /\ slept' = TRUE
         /\ img_attempt' = img_attempt + 1
         /\ pc' = "img_gen"
         /\ UNCHANGED img_result

\* the `except Exception` handler of the retry loop of generate_image, and
\* the outer handler that turns the terminal exception into a string
ImageAttemptFailed(sleptBefore) ==
    IF img_attempt = image_max_retries - 1
    THEN /\ img_result' = ErrorString
         /\ pc' = "img_ret"
         /\ slept' = sleptBefore
         /\ UNCHANGED img_attempt
    ELSE /\ slept' = TRUE
         /\ img_attempt' = img_attempt + 1
         /\ IF img_attempt + 1 < image_max_retries
            THEN pc' = "img_gen" /\ UNCHANGED img_result
            ELSE pc' = "img_ret" /\ img_result' = NoneValue

\* one pass of the retry loop up to the answer of client.images.generate
images_generate ==
    /\ pc = "img_gen"
    /\ genRequests' = genRequests + 1
    /\ \E ok \in BOOLEAN :
         IF ok
         THEN /\ pc' = "img_dl"
              /\ dl_attempt' = 0
              /\ UNCHANGED <<img_attempt, img_result, slept>>
         ELSE /\ ImageAttemptFailed(slept)
              /\ UNCHANGED dl_attempt
    /\ UNCHANGED <<genVars, now, dirs, images, img_i, dlRequests,
                   voiceVars, audioFs, vmVars, finalAudio, renderVars, cvVars, dgVars>>

\* one pass of the retry loop of download_image_with_retry; on success the
\* rest of the pass of generate_image (save the file, return its name)
download_image_with_retry ==
    /\ pc = "img_dl"
    /\ dlRequests' = dlRequests + 1
    /\ \E outcome \in {"ok", "net", "other"} :
         CASE outcome = "ok" ->
                /\ img_result' = ImagePath(img_i)
                /\ pc' = "img_ret"
                /\ UNCHANGED <<img_attempt, dl_attempt, slept>>
           [] outcome = "net" ->
                /\ IF dl_attempt = download_max_retries - 1
                   THEN /\ ImageAttemptFailed(slept)
                        /\ UNCHANGED dl_attempt
                   ELSE /\ dl_attempt' = dl_attempt + 1
                        /\ IF dl_attempt + 1 < download_max_retries
                           THEN /\ slept' = TRUE
                                /\ pc' = "img_dl"
                                /\ UNCHANGED <<img_attempt, img_result>>
                           ELSE ImageAttemptFailed(TRUE)
           [] outcome = "other" ->
                /\ UNCHANGED dl_attempt
                /\ ImageAttemptFailed(slept)
    /\ UNCHANGED <<genVars, now, dirs, images, img_i, genRequests, voiceVars, audioFs,
                   vmVars, finalAudio, renderVars, cvVars, dgVars>>

\* images[i] = image_path, then the next line or `return images`; the
\* callers store the returned dict in generator.dialogue_images, and the
\* locals of the finished calls are gone
images_store ==
    /\ pc = "img_ret"
    /\ img_attempt' = 0
    /\ dl_attempt' = 0
    /\ genRequests' = 0
    /\ dlRequests' = 0
    /\ img_result' = NoneValue
    /\ IF img_i + 1 < Len(lines)
       THEN /\ images' = DictPut(images, img_i, img_result)
            /\ img_i' = img_i + 1
            /\ pc' = "img_gen"
            /\ UNCHANGED dialogue_images
       ELSE /\ dialogue_images' = DictPut(images, img_i, img_result)
            /\ images' = EmptyDict
            /\ img_i' = 0
            /\ pc' = "images_done"
    /\ UNCHANGED <<lines, clockVars, dirs, voiceVars,
                   audioFs, vmVars, finalAudio, renderVars, cvVars, dgVars>>

\* ------------------------------------------- ElevenLabsVoiceManager
voice_ids == [rick |-> "21m00Tcm4TlvDq8ikWAM", morty |-> "AZnzlk1XvdvUeBnXmlld"]

\* voice_id = self.voice_ids["rick"] if is_rick else self.voice_ids["morty"]
VoiceId(is_rick) == IF is_rick THEN voice_ids.rick ELSE voice_ids.morty

\* character.lower(), character = "Rick" if is_rick else "Morty"
Character(is_rick) == IF is_rick THEN "rick" ELSE "morty"

\* the parity test inverted
IsRickInverted(idx) == idx % 2 = 1
\* is_rick = i % 2 == 0
IsRick(idx) == idx % 2 = 0

\* the last attempt tested against max_retries instead of max_retries - 1
VoiceIsLastAttemptLate(a) == a = voice_max_retries
\* `if attempt == max_retries - 1` of the handler of generate_audio
VoiceIsLastAttempt(a) == a = voice_max_retries - 1

\* the lines taken from the end of the list
LineAtReversed(ls, idx) == ls[Len(ls) - idx]
\* `for i, line in enumerate(dialogue_lines)`: the line of index i
LineAt(ls, idx) == ls[idx + 1]

\* the entry appended to self.timestamps
TimelineEntry(line, image, start, duration) ==
    [text |-> line, image |-> image, start |-> start, end |-> start + duration]

\* current_time = duration: the cursor set instead of advanced
NextTimeAssigned(t, duration) == duration
\* current_time += duration
NextTime(t, duration) == t + duration

\* combined = AudioSegment.empty(); combined += AudioSegment.from_file(f)
RECURSIVE Combined(_, _)
Combined(files, fs) ==
    IF files = <<>> THEN 0 ELSE fs[Head(files)] + Combined(Tail(files), fs)

\* the locals of a fresh generate_audio(line, is_rick) call
EnterGenerateAudio(idx) ==
    /\ attempt' = 0
    /\ vRequests' = 0
    /\ vSleeps' = 0
    /\ vVoice' = VoiceId(IsRick(idx))
    /\ vStatus' = "running"
    /\ vError' = NoError
    /\ vLast' = "none"
    /\ audio_file' = NoFile

\* --------------------------------------------------------- VideoManager
\* create_audio_with_timestamps up to the first generate_audio call
BuildStarts ==
    /\ dirs' = dirs \cup {"temp", "temp/audio", "metadata", "metadata/audio"}
    /\ vm_set' = TRUE
    /\ vm_lines' = lines
    /\ audio_files' = <<>>
    /\ timestamps' = <<>>
    /\ current_time' = 0
    /\ i' = 0
    /\ buildNo' = buildNo + 1
    /\ buildStatus' = "running"
    /\ EnterGenerateAudio(0)
    /\ pc' = "synth"
    /\ UNCHANGED <<lines, dialogue_images, clockVars, imgVars, audioFs,
                   finalAudio, renderVars, cvVars, dgVars>>

\* the call the pipeline makes once the images are there
create_audio_with_timestamps ==
    /\ pc = "images_done"
    /\ BuildStarts

\* one pass of the retry loop of generate_audio: the request, then either
\* the file is written and its name returned, or the handler runs; an
\* exception leaving generate_audio leaves create_audio_with_timestamps too
generate_audio ==
    /\ pc = "synth"
    /\ vRequests' = vRequests + 1
    /\ \/ \E d \in 1 .. MaxDur, t \in ClockReadings :
            /\ now' = t
            /\ slept' = FALSE
            /\ audioFs' = [audioFs EXCEPT ![AudioName(Character(IsRick(i)), t)] = d]
            /\ audio_file' = AudioName(Character(IsRick(i)), t)
            /\ vStatus' = "returned"
            /\ pc' = "measure"
            /\ UNCHANGED <<attempt, vSleeps, vError, vLast, buildStatus>>
       \/ \E cause \in Causes :
            /\ vLast' = cause
            /\ UNCHANGED <<now, audioFs, audio_file>>
            /\ IF VoiceIsLastAttempt(attempt)
               THEN /\ vError' = RetriesError(cause)
                    /\ vStatus' = "raised"
                    /\ buildStatus' = "failed"
                    /\ pc' = "aborted"
                    /\ UNCHANGED <<attempt, vSleeps, slept>>
               ELSE /\ vSleeps' = vSleeps + 1
                    /\ slept' = TRUE
                    /\ attempt' = attempt + 1
                    /\ IF attempt + 1 < voice_max_retries
                       THEN UNCHANGED <<pc, vStatus, vError, buildStatus>>
                       ELSE /\ vError' = GenericError
                            /\ vStatus' = "raised"
                            /\ buildStatus' = "failed"
                            /\ pc' = "aborted"
    /\ UNCHANGED <<genVars, dirs, imgVars, vVoice, vm_set, vm_lines, audio_files,
                   timestamps, current_time, i, buildNo, finalAudio, renderVars, cvVars, dgVars>>

\* the rest of the loop body of create_audio_with_timestamps: measure the
\* clip, append the entry, advance; then the next line or the end of the loop
build_append ==
    /\ pc = "measure"
    /\ audio_files' = Append(audio_files, audio_file)
    /\ timestamps' = Append(timestamps,
            TimelineEntry(LineAt(vm_lines, i), DictGet(dialogue_images, i, EmptyString),
                          current_time, audioFs[audio_file]))
    /\ current_time' = NextTime(current_time, audioFs[audio_file])
    /\ i' = i + 1
    /\ IF i + 1 < Len(vm_lines)
       THEN /\ EnterGenerateAudio(i + 1)
            /\ pc' = "synth"
       ELSE /\ pc' = "concat"
            /\ UNCHANGED voiceVars
    /\ UNCHANGED <<genVars, clockVars, dirs, imgVars, audioFs, vm_set, vm_lines,
                   buildNo, buildStatus, finalAudio, renderVars, cvVars, dgVars>>

\* the concatenation of self.audio_files and the export of final_audio.wav
build_concat ==
    /\ pc = "concat"
    /\ finalAudio' = [dur |-> Combined(audio_files, audioFs), by |-> buildNo]
    /\ buildStatus' = "ok"
    /\ pc' = "built"
    /\ UNCHANGED <<genVars, clockVars, dirs, imgVars, voiceVars, audioFs, vm_set,
                   vm_lines, audio_files, timestamps, current_time, i, buildNo,
                   renderVars, cvVars, dgVars>>

\* mp.ImageClip(image_path) opens the file: the error message and the empty
\* string name no file
ImageClipOpens(image_path) == image_path.kind = "path"

\* the captions without set_end: each one stays up to the end of the video
create_subtitle_clips_no_end(ts) ==
    [p \in 1 .. Len(ts) |->
        [text |-> ts[p].text, start |-> ts[p].start, end |-> ts[Len(ts)].end]]

\* create_subtitle_clips: one TextClip per entry, set_start / set_end
create_subtitle_clips(ts) ==
    [p \in 1 .. Len(ts) |->
        [text |-> ts[p].text, start |-> ts[p].start, end |-> ts[p].end]]

\* create_image_clips: one ImageClip per entry, set_start / set_end; it
\* raises at the first entry whose file cannot be opened
create_image_clips(ts) ==
    [p \in 1 .. Len(ts) |->
        [image |-> ts[p].image, start |-> ts[p].start, end |-> ts[p].end]]

ImageClipsRaise(ts) == \E p \in 1 .. Len(ts) : ~ImageClipOpens(ts[p].image)

\* sum(ts["end"] - ts["start"] for ts in self.timestamps)
BackgroundDuration(ts) == SumSeq([p \in 1 .. Len(ts) |-> ts[p].end - ts[p].start])

\* CompositeVideoClip([background] + image_clips + subtitle_clips).duration:
\* the latest end of its clips
CompositeDuration(bg, imgs, subs) ==
    LET ends == {bg} \cup {imgs[p].end : p \in 1 .. Len(imgs)}
                     \cup {subs[p].end : p \in 1 .. Len(subs)}
    IN  CHOOSE e \in ends : \A f \in ends : f <= e

\* the clips process_video has constructed when it raises at `cause` or
\* returns: the ColorClip, the TextClips, the ImageClips before the one that
\* raises, the AudioFileClip and the CompositeVideoClip
FirstUnopened(ts) ==
    CHOOSE p \in 1 .. Len(ts) + 1 :
        /\ \A q \in 1 .. p - 1 : ImageClipOpens(ts[q].image)
        /\ p <= Len(ts) => ~ImageClipOpens(ts[p].image)

ClipsOpened(cause, ts) ==
    IF cause = "attribute" THEN {<<"background", 0>>}
    ELSE {<<"background", 0>>}
         \cup {<<"subtitle", p>> : p \in 1 .. Len(ts)}
         \cup {<<"image", p>> : p \in 1 .. FirstUnopened(ts) - 1}
         \cup (IF cause \in {"image", "audio"} THEN {}
               ELSE {<<"audio", 0>>, <<"video", 0>>})

\* the clips process_video closes before it ends: it has no close() call
ClipsClosed(cause, ts) == {}

\* the statement of process_video that raises, "none" when none does
RenderFailure(encoder_ok) ==
    IF ~vm_set THEN "attribute"
    ELSE IF ImageClipsRaise(timestamps) THEN "image"
    ELSE IF finalAudio.by = 0 THEN "audio"
    ELSE IF "metadata/video" \notin dirs THEN "metadata"
    ELSE IF ~encoder_ok THEN "encode"
    ELSE "none"

\* process_video(): the whole call; encoder_ok is the outcome of
\* write_videofile, t the second that names the output file
Render ==
    /\ \E encoder_ok \in BOOLEAN :
         LET cause == RenderFailure(encoder_ok) IN
         /\ renderCause' = cause
         /\ renderStatus' = IF cause = "none" THEN "ok" ELSE "error"
         /\ pc' = IF cause = "none" THEN "done" ELSE "aborted"
         /\ bg_duration' = IF cause = "attribute" THEN 0
                           ELSE BackgroundDuration(timestamps)
         /\ subtitle_clips' = IF cause = "attribute" THEN <<>>
                              ELSE create_subtitle_clips(timestamps)
         /\ image_clips' = IF cause \in {"attribute", "image"} THEN <<>>
                           ELSE create_image_clips(timestamps)
         /\ video_audio' = IF cause \in {"attribute", "image", "audio"} THEN 0
                           ELSE finalAudio.dur
         /\ video_audio_by' = IF cause \in {"attribute", "image", "audio"} THEN 0
                              ELSE finalAudio.by
         /\ video_duration' = IF cause \in {"attribute", "image", "audio"} THEN 0
                              ELSE CompositeDuration(BackgroundDuration(timestamps),
                                                     create_image_clips(timestamps),
                                                     create_subtitle_clips(timestamps))
         /\ open_clips' = ClipsOpened(cause, timestamps) \ ClipsClosed(cause, timestamps)
         /\ IF cause \in {"attribute", "image", "audio"}
            THEN UNCHANGED <<clockVars, outputs>>
            ELSE \E t \in ClockReadings :
                    /\ now' = t
                    /\ slept' = FALSE
                    /\ outputs' = IF cause = "none" THEN outputs \cup {t}
                                  ELSE outputs
    /\ UNCHANGED <<genVars, dirs, imgVars, voiceVars, audioFs, vmVars, finalAudio, cvVars, dgVars>>

\* the call the pipeline makes after a build that returned
process_video ==
    /\ pc = "built"
    /\ Render

Next ==
    \/ generate_images_for_dialogue
    \/ images_generate
    \/ download_image_with_retry
    \/ images_store
    \/ create_audio_with_timestamps
    \/ generate_audio
    \/ build_append
    \/ build_concat
    \/ process_video

Spec == Init /\ [][Next]_vars

\* ------------------------------------------------- a second pipeline run
\* Another run of the pipeline in the same working directory, with its own
\* VideoManager: its create_audio_with_timestamps for a one-line dialogue,
\* taken whole.  It reads the same clock, writes its clip under the name
\* generate_audio gives it and exports temp/audio/final_audio.wav.
OtherRun == -1

other_run_build ==
    /\ pc \notin {"done", "aborted"}
    /\ finalAudio.by # OtherRun
    /\ \E d \in 1 .. MaxDur, t \in ClockReadings :
         LET name  == AudioName(Character(IsRick(0)), t)
             files == [audioFs EXCEPT ![name] = d]
         IN  /\ now' = t
             /\ slept' = FALSE
             /\ audioFs' = files
             /\ finalAudio' = [dur |-> Combined(<<name>>, files), by |-> OtherRun]
    /\ UNCHANGED <<pc, genVars, dirs, imgVars, voiceVars, vmVars, renderVars, cvVars, dgVars>>

NextTwoRuns == Next \/ other_run_build

SpecTwoRuns == Init /\ [][NextTwoRuns]_vars

\* ------------------------------------- repeated calls on one VideoManager
\* A caller that keeps the VideoManager after a call has returned or raised:
\* before it renders it may build again, whether the last build returned or
\* raised, up to MaxBuilds builds in all; and it may render after a build that
\* raised.
MaxBuilds == 2

create_audio_with_timestamps_again ==
    /\ pc \in {"built", "aborted"}
    /\ buildNo < MaxBuilds
    /\ renderStatus = "none"
    /\ BuildStarts

process_video_after_failed_build ==
    /\ pc = "aborted"
    /\ buildStatus = "failed"
    /\ renderStatus = "none"
    /\ Render

NextCalls ==
    \/ Next
    \/ create_audio_with_timestamps_again
    \/ process_video_after_failed_build

SpecCalls == Init /\ [][NextCalls]_vars

\* ------------------------------------------- VideoManager.create_video
\* The dual-character render, called on its own with a list of audio files
\* (each known by its duration), a list of (character, image) pairs, each
\* image existing or not, and a duration.
video_size == <<1080, 1920>>

AudioLists == UNION {[1 .. n -> 1 .. MaxDur] : n \in 1 .. MaxLines}
CharacterImages ==
    UNION {[1 .. n -> [character : {"rick", "morty"}, exists : BOOLEAN]] : n \in 0 .. 2}

CreateVideoArgs ==
    [audio : AudioLists, images : CharacterImages, duration : 1 .. MaxDur,
     bg_opens : BOOLEAN, bg_len : 1 .. MaxDur]

\* the background is looped up to, or cut down to, the duration asked for
CvBackground(bg_len, duration) == IF bg_len < duration THEN duration ELSE duration

CvPosition(character) ==
    IF character = "rick" THEN <<video_size[1] - 500, 100>>
                          ELSE <<100, video_size[2] - 450>>

\* one clip per pair whose image exists, in list order
RECURSIVE CharacterClips(_)
CharacterClips(character_images) ==
    IF character_images = <<>> THEN <<>>
    ELSE LET rest == CharacterClips(Tail(character_images))
             pair == Head(character_images)
         IN  IF pair.exists
             THEN <<[character |-> pair.character,
                     position  |-> CvPosition(pair.character)]>> \o rest
             ELSE rest

\* AudioFileClip(audio): a clip that starts at 0 and lasts as long as its file
AudioClips(audio) == [k \in 1 .. Len(audio) |-> [start |-> 0, end |-> audio[k]]]

\* CompositeAudioClip(clips).duration: the latest end among its clips
CompositeAudioDuration(clips) ==
    CHOOSE e \in {clips[k].end : k \in 1 .. Len(clips)} :
        \A k \in 1 .. Len(clips) : clips[k].end <= e

CvClips(args) ==
    {<<"background", 1>>, <<"final_video", 1>>}
      \cup {<<"audio", k>> : k \in 1 .. Len(args.audio)}
      \cup {<<"character", k>> : k \in 1 .. Len(CharacterClips(args.images))}

create_video ==
    /\ pc = "video"
    /\ \E encoder_ok \in BOOLEAN :
         IF ~cv_args.bg_opens
         THEN /\ cv_status' = "error"
              /\ UNCHANGED <<cv_audio, cv_audio_duration, cv_background,
                             cv_characters, cv_open, outputs>>
         ELSE LET clips == AudioClips(cv_args.audio)
              IN  /\ cv_background' = CvBackground(cv_args.bg_len, cv_args.duration)
                  /\ cv_characters' = CharacterClips(cv_args.images)
                  /\ cv_audio' = clips
                  /\ cv_audio_duration' = CompositeAudioDuration(clips)
                  /\ IF encoder_ok
                     THEN /\ cv_status' = "ok"
                          /\ cv_open' = {}
                          /\ outputs' = outputs \cup {"output_filename"}
                     ELSE /\ cv_status' = "error"
                          /\ cv_open' = CvClips(cv_args)
                          /\ UNCHANGED outputs
    /\ pc' = "video_done"
    /\ UNCHANGED <<genVars, clockVars, dirs, imgVars, voiceVars, audioFs, vmVars,
                   finalAudio, bg_duration, subtitle_clips, image_clips,
                   video_audio, video_audio_by, video_duration, open_clips,
                   renderStatus, renderCause, cv_args, dgVars>>

InitVideo ==
    /\ pc = "video"
    /\ lines = <<>>
    /\ InitManagers
    /\ cv_args \in CreateVideoArgs
    /\ InitCreateVideo
    /\ num_lines = 0
    /\ frames = 0
    /\ InitGenerateDialogue

NextVideo == create_video

SpecVideo == InitVideo /\ [][NextVideo]_vars

\* ---------------------------------- DialogueGenerator.generate_dialogue
\* One call of generate_dialogue(topic, num_lines).  The service answers
\* each request with a text, given here as its lines, blank ones included,
\* or the request raises.
Blank == " "
Responses == UNION {[1 .. n -> Texts \cup {Blank}] : n \in 0 .. MaxLines}

\* the frames of generate_dialogue the interpreter's stack has room for
RecursionLimit == 3

RECURSIVE StripLeft(_)
StripLeft(text) ==
    IF text = <<>> THEN <<>>
    ELSE IF Head(text) = Blank THEN StripLeft(Tail(text))
    ELSE text

RECURSIVE StripRight(_)
StripRight(text) ==
    IF text = <<>> THEN <<>>
    ELSE IF text[Len(text)] = Blank THEN StripRight(SubSeq(text, 1, Len(text) - 1))
    ELSE text

\* content.strip()
Strip(text) == StripRight(StripLeft(text))

\* [line for line in dialogue.split("\n") if line.strip()]
NonBlankLines(dialogue) == SelectSeq(dialogue, LAMBDA line : line # Blank)

\* whether the recursive call can be entered; if not it raises RecursionError
FrameFitsOneMore(n) == n < RecursionLimit + 1
FrameFits(n) == n < RecursionLimit

\* the call returns value through every frame that is waiting for it
DialogueReturns(value) ==
    /\ dialogue_result' = value
    /\ frames' = 0
    /\ pc' = "dialogue_returned"

\* the body of generate_dialogue in the innermost frame: the request, the
\* line count, then the recursive call, the return, or the handler
generate_dialogue ==
    /\ pc = "dialogue"
    /\ requests' = requests + 1
    /\ \/ /\ DialogueReturns("error_msg")
          /\ UNCHANGED <<response, last_generated_dialogue>>
       \/ \E content \in Responses :
            LET dialogue == Strip(content) IN
            /\ response' = content
            /\ IF Len(NonBlankLines(dialogue)) # num_lines
               THEN /\ UNCHANGED last_generated_dialogue
                    /\ IF FrameFits(frames)
                       THEN /\ frames' = frames + 1
                            /\ UNCHANGED <<pc, dialogue_result>>
                       ELSE DialogueReturns("error_msg")
               ELSE /\ last_generated_dialogue' = dialogue
                    /\ DialogueReturns("dialogue")
    /\ UNCHANGED <<genVars, clockVars, dirs, imgVars, voiceVars, audioFs, vmVars,
                   finalAudio, renderVars, cvVars, num_lines>>

InitDialogue ==
    /\ pc = "dialogue"
    /\ lines = <<>>
    /\ InitManagers
    /\ cv_args = NoArgs
    /\ InitCreateVideo
    /\ num_lines \in 1 .. MaxLines
    /\ frames = 1
    /\ InitGenerateDialogue

NextDialogue == generate_dialogue

SpecDialogue == InitDialogue /\ [][NextDialogue]_vars

\* the interpreter keeps running the call: every request is answered or raises
FairSpecDialogue == SpecDialogue /\ WF_vars(generate_dialogue)

\* ============================================================ properties
ImageExhausted(idx) == idx \in DOMAIN dialogue_images /\ dialogue_images[idx] = ErrorString
LastEntry == timestamps[Len(timestamps)]

\* C1: after a completed build the timeline starts at 0, every entry ends
\* where the next one starts, and every entry ends after it starts.
C1_Contiguity ==
    buildStatus = "ok" =>
        /\ timestamps[1].start = 0
        /\ \A p \in 1 .. Len(timestamps) - 1 :
                timestamps[p].end = timestamps[p + 1].start
        /\ \A p \in 1 .. Len(timestamps) : timestamps[p].end > timestamps[p].start

C1_Witness ==
    /\ buildStatus = "ok"
    /\ Len(timestamps) = 3
    /\ timestamps[2].start = 2
    /\ timestamps[3].start = 3

\* C2: a build in which every synthesis succeeds yields exactly one entry
\* per input line, in input order, entry i carrying the text of line i.
C2_OneEntryPerLine ==
    buildStatus = "ok" =>
        /\ Len(timestamps) = Len(lines)
        /\ \A p \in 1 .. Len(lines) : timestamps[p].text = lines[p]

C2_Witness ==
    /\ buildStatus = "ok"
    /\ lines = <<"a", "b", "b">>
    /\ Len(timestamps) = 3

\* C3: when synthesis fails all 3 attempts for a line the build fails and
\* no timeline entry is left behind.
C3_NoPartialTimeline ==
    (buildStatus = "failed" /\ vRequests = 3) => timestamps = <<>>

\* C4: when image generation exhausted its retries for line k the build
\* succeeds with the image of entry k empty and every other entry carrying
\* its own generated image.
C4_AbsentImage ==
    (pc = "built" /\ \E k \in 0 .. Len(lines) - 1 : ImageExhausted(k)) =>
        /\ buildStatus = "ok"
        /\ \A p \in 1 .. Len(timestamps) :
               timestamps[p].image =
                   IF ImageExhausted(p - 1) THEN EmptyString ELSE ImagePath(p - 1)

\* C5: process_video never fails because an entry has no image: overlays
\* are built only for the entries that have one and the render goes on to
\* the encode step.
C5_RenderSurvivesMissingImage ==
    renderStatus # "none" =>
        /\ renderCause # "image"
        /\ (renderCause \in {"none", "encode"} =>
               \A p \in 1 .. Len(image_clips) : ImageClipOpens(image_clips[p].image))

\* C6: from a fresh generator, when every illustration and every synthesis
\* succeeds and the encoder does not fail, images -> build -> render ends
\* with one output video file.
C6_HappyPathRenders ==
    ( /\ renderStatus # "none"
      /\ \A k \in 0 .. Len(lines) - 1 : dialogue_images[k].kind = "path"
      /\ buildStatus = "ok"
      /\ renderCause # "encode" ) =>
        (renderStatus = "ok" /\ Cardinality(outputs) = 1)

\* C7: after a successful build the duration of final_audio.wav equals
\* the end of the last timeline entry.
C7_TrackDuration ==
    buildStatus = "ok" => finalAudio.dur = LastEntry.end

\* C8: line i is synthesized with rick's voice when i is even and with
\* morty's when i is odd, whatever the texts and the earlier lines.
C8_SpeakerParity ==
    /\ pc \in {"synth", "measure"} =>
           vVoice = IF i % 2 = 0 THEN "21m00Tcm4TlvDq8ikWAM"
                                 ELSE "AZnzlk1XvdvUeBnXmlld"
    /\ \A p \in 1 .. Len(audio_files) :
           audio_files[p][1] = IF (p - 1) % 2 = 0 THEN "rick" ELSE "morty"

C8_Witness ==
    /\ pc = "measure"
    /\ i = 2
    /\ vVoice = "21m00Tcm4TlvDq8ikWAM"
    /\ audio_files[2][1] = "morty"
    /\ lines[1] = lines[2]

\* C9: one generate_audio call sends at most 3 requests, returns at its
\* first successful attempt, has slept once per failed attempt but the
\* last, and after the third failure raises an error built from the cause
\* of that third failure.
C9_RetryPolicy ==
    /\ vRequests <= 3
    /\ vStatus = "running" => (vSleeps = vRequests /\ vSleeps <= 2)
    /\ vStatus = "returned" => (vSleeps = vRequests - 1 /\ vError = NoError)
    /\ vStatus = "raised" =>
           /\ vRequests = 3
           /\ vSleeps = 2
           /\ vError = [kind |-> "retries", cause |-> vLast]

C9_Witness ==
    /\ vStatus = "raised"
    /\ vRequests = 3
    /\ vError.cause = "http"

\* C10 as stated: one generate_image call makes at most 3 generation
\* requests and at most 3 image-download requests in total.
C10_ThreeDownloadsInTotal ==
    genRequests <= 3 /\ dlRequests <= 3

\* C10 amended: one generate_image call makes at most 3 generation
\* requests, and at most 3 image-download requests for each of them,
\* hence at most 9 image-download requests in total.
C10_ThreeDownloadsPerAttempt ==
    /\ genRequests <= 3
    /\ dl_attempt <= 2
    /\ dlRequests <= 3 * genRequests
    /\ dlRequests <= 9

C10_Witness ==
    /\ pc = "img_ret"
    /\ genRequests = 3
    /\ dlRequests = 9

\* C11: generate_image never raises, whatever fails; the loop of
\* generate_images_for_dialogue reaches every line, and the mapping it
\* returns has exactly the keys 0 .. n-1.
C11_ImagesNeverAbort ==
    /\ pc = "aborted" => (buildStatus = "failed" \/ renderStatus = "error")
    /\ pc \in {"img_gen", "img_dl", "img_ret"} => DOMAIN images = 0 .. img_i - 1
    /\ pc = "img_ret" => img_result.kind \in {"path", "error"}
    /\ pc \notin {"start", "img_gen", "img_dl", "img_ret"} =>
           DOMAIN dialogue_images = 0 .. Len(lines) - 1

C11_Witness ==
    /\ pc = "images_done"
    /\ Len(lines) = 3
    /\ dialogue_images[0] = ErrorString
    /\ dialogue_images[1] = ErrorString
    /\ dialogue_images[2] = ImagePath(2)

\* C12: every clip the render opened (background, image and caption
\* overlays, audio, composite) has been released when process_video
\* returns or raises.
C12_ClipsReleased ==
    renderStatus # "none" => open_clips = {}

\* C13: two runs whose steps interleave share nothing: the audio track a
\* run renders is the one its own build exported.
C13_RunRendersOwnTrack ==
    (renderStatus # "none" /\ video_audio_by # 0) => video_audio_by = buildNo

C15_BackgroundSpansTrack ==
    (renderStatus # "none" /\ video_audio_by # 0) =>
        /\ bg_duration = LastEntry.end
        /\ video_duration = LastEntry.end
        /\ video_duration = video_audio

\* C16: in every render path the audio channel is the supplied segments one
\* after another in list order, without gaps or overlaps, and lasts as long as
\* the segments together; here for create_video, which is given the segments
\* as a list of files.
C16_AudioInSequence ==
    cv_status = "ok" =>
        /\ cv_audio_duration = SumSeq(cv_args.audio)
        /\ \A k \in 1 .. Len(cv_audio) :
              /\ cv_audio[k].start = SumSeq(SubSeq(cv_args.audio, 1, k - 1))
              /\ cv_audio[k].end = cv_audio[k].start + cv_args.audio[k]

\* C17: every directory a step writes into exists before the step runs:
\* images and metadata/images for the illustrations, temp/audio and
\* metadata/audio for the build, metadata/video and output for the render.
C17_DirectoriesCreated ==
    /\ pc \in {"img_gen", "img_dl"} => {"images", "metadata/images"} \subseteq dirs
    /\ pc \in {"synth", "concat"} => {"temp/audio", "metadata/audio"} \subseteq dirs
    /\ pc = "built" => {"metadata/video", "output"} \subseteq dirs

\* C18: on one VideoManager, whenever process_video has read the timeline
\* and loaded temp/audio/final_audio.wav, the timeline has one entry per line
\* of the most recent build call and the track was written by that build.
C18_RenderReadsLatestBuild ==
    (renderStatus # "none" /\ renderCause \notin {"attribute", "image", "audio"}) =>
        /\ Len(timestamps) = Len(vm_lines)
        /\ video_audio_by = buildNo

====
